---- MODULE Spec2Model ----
(***************************************************************************)
(* A model of mcp-next-ai-draw-io: the version history (history.py) and    *)
(* the id-based patch engine (diagram_operations.py).                      *)
(***************************************************************************)
EXTENDS Integers, Sequences, FiniteSets, TLC

(***************************************************************************)
(* Bounds of the model.                                                    *)
(***************************************************************************)
\* While several sessions hold entries, each holds at most MaxShort of them;
\* the first MaxShort pushes of a session carry any xml of 1 .. MaxShort + 1
\* and any preview.
MaxShort == 1
\* The highest document revision a client pushes.
MaxSnap == 52
\* get_version is called with every index in -MaxIndex .. MaxIndex.
MaxIndex == 52

(***************************************************************************)
(* history.py                                                              *)
(***************************************************************************)
\* The literal 50 of add_history.
HistoryCap == 50

Sessions == {"s1", "s2"}
\* xml texts are named by revision numbers: equal numbers are equal texts.
Xmls == 1 .. MaxSnap
DefaultSvg == ""
Svgs == {DefaultSvg, "p"}
\* The instants datetime.now() can return.
Instants == {0, 1}
Indices == (0 - MaxIndex) .. MaxIndex
\* The indices the get_version steps of a behaviour use; the result of
\* get_version is checked at every index of Indices, in every state.
ProbeIndices == {0 - MaxIndex, 0 - 1, 0, MaxIndex}

\* Python's None, and the IndexError a list subscript raises.
None == [py |-> "None"]
IndexError == [py |-> "IndexError"]

VARIABLES
  _history,   \* history.py _history: session id -> list of DiagramVersion
  now         \* the clock behind datetime.now()

histVars == <<_history, now>>

VARIABLES
  xml_content,  \* apply_diagram_operations: the text passed in
  operations,   \* apply_diagram_operations: the operations passed in
  pc,           \* where apply_diagram_operations stands
  opIndex,      \* the position of the for loop in operations (1-based)
  doc,          \* the children of <root> in the parsed document
  cell_map,     \* cell_map: id -> element
  errors,       \* errors
  printed,      \* the warnings written by print
  nextNid,      \* the next element identity the DOM hands out
  returned      \* the dictionary the function returned

patchVars == <<xml_content, operations, pc, opIndex, doc, cell_map, errors,
               printed, nextNid, returned>>

VARIABLES
  current_diagram,  \* mcp_drawio_server.py current_diagram: a Diagram or None
  current_xml,      \* mcp_drawio_server.py current_xml: a text or None
  call              \* the last call made to mcp_drawio_server.py and its outcome

serverVars == <<current_diagram, current_xml, call>>

vars == <<histVars, patchVars, serverVars>>

\* mcp_drawio_server.py has not been used.
ServerIdle == current_diagram = None /\ current_xml = None /\ call = None

\* apply_diagram_operations is not running.
PatchIdle ==
  /\ xml_content = "" /\ operations = <<>> /\ pc = "idle" /\ opIndex = 0
  /\ doc = <<>> /\ cell_map = <<>> /\ errors = <<>> /\ printed = <<>>
  /\ nextNid = 0 /\ returned = <<>>

\* class DiagramVersion: __init__ with timestamp=None stores datetime.now().
DiagramVersion(xml, svg, timestamp) ==
  [xml |-> xml, svg |-> svg,
   timestamp |-> IF timestamp = None THEN now ELSE timestamp]

\* dict.get(key, default)
DictGet(d, k, default) == IF k \in DOMAIN d THEN d[k] ELSE default

\* d[k] = v
DictSet(d, k, v) == [x \in (DOMAIN d) \cup {k} |-> IF x = k THEN v ELSE d[x]]

\* del d[k]
DictDel(d, k) == [x \in (DOMAIN d) \ {k} |-> d[x]]

\* A subscript that takes no negative index.
PyIndex_NoNegative(lst, i) ==
  IF i < 0 \/ i >= Len(lst) THEN IndexError ELSE lst[i + 1]

\* Python list subscript lst[i] for an int i: a negative index counts from
\* the end, anything outside raises IndexError.
PyIndex(lst, i) ==
  LET n == Len(lst)
      j == IF i < 0 THEN i + n ELSE i
  IN  IF j < 0 \/ j >= n THEN IndexError ELSE lst[j + 1]

\* A slice that starts one element late: lst[-(k - 1):].
PyLastSlice_Short(lst, k) ==
  IF Len(lst) <= k - 1 THEN lst ELSE SubSeq(lst, Len(lst) - k + 2, Len(lst))

\* Python slice lst[-k:] for k > 0: the last k elements (all, if fewer).
PyLastSlice(lst, k) ==
  IF Len(lst) <= k THEN lst ELSE SubSeq(lst, Len(lst) - k + 1, Len(lst))

\* A comparison with the oldest entry instead of the newest.
SameAsFirst(lst, xml) == lst # <<>> /\ lst[1].xml = xml

\* add_history line 37-40: the list is non-empty and its last xml is the new xml.
SameAsLast(lst, xml) == lst # <<>> /\ lst[Len(lst)].xml = xml

\* A trim that starts one entry late.
TrimHistory_Late(lst) ==
  IF Len(lst) > HistoryCap + 1 THEN PyLastSlice(lst, HistoryCap + 1) ELSE lst

\* add_history line 46-47: keep only the last 50 versions.
TrimHistory(lst) == IF Len(lst) > HistoryCap THEN PyLastSlice(lst, HistoryCap) ELSE lst

\* add_history: the value of _history after the call.
AddHistoryResult(h, session_id, xml, svg) ==
  LET h1 == IF session_id \notin DOMAIN h THEN DictSet(h, session_id, <<>>) ELSE h
  IN  IF SameAsLast(h1[session_id], xml)
      THEN h1
      ELSE DictSet(h1, session_id,
                   TrimHistory(Append(h1[session_id], DiagramVersion(xml, svg, None))))

\* get_history: the returned list.
GetHistoryResult(h, session_id) == DictGet(h, session_id, <<>>)

\* get_history: the value of _history after the call (dict.get stores nothing).
GetHistoryEffect(h, session_id) == h

\* get_version: the value of _history after the call (dict.get stores nothing).
GetVersionEffect(h, session_id) == h

\* get_version: the returned DiagramVersion, or None.
GetVersionResult(h, session_id, index) ==
  LET versions == DictGet(h, session_id, <<>>)
  IN  IF versions = <<>> THEN None
      ELSE IF PyIndex(versions, index) = IndexError THEN None
      ELSE PyIndex(versions, index)

\* A clear that empties the whole store.
ClearHistory_All(h, session_id) == <<>>

\* clear_history: the value of _history after the call.
ClearHistoryResult(h, session_id) ==
  IF session_id \in DOMAIN h THEN DictDel(h, session_id) ELSE h

\* get_history_count: the value of _history after the call.
GetHistoryCountEffect(h, session_id) == h

\* get_history_count: the returned number.
GetHistoryCountResult(h, session_id) == Len(DictGet(h, session_id, <<>>))

\* The clients that drive the history.  A session grows beyond MaxShort
\* entries only while it is the only session.
MayAppend(session_id) ==
  LET others == (DOMAIN _history) \ {session_id}
  IN  \/ others = {}
      \/ /\ Len(DictGet(_history, session_id, <<>>)) < MaxShort
         /\ \A t \in others : Len(_history[t]) <= MaxShort

\* A client pushes any small revision while its session is short, later the
\* unchanged document again or its next revision.
XmlChoices(session_id) ==
  LET lst == DictGet(_history, session_id, <<>>)
  IN  IF Len(lst) < MaxShort THEN 1 .. (MaxShort + 1)
      ELSE {lst[Len(lst)].xml, lst[Len(lst)].xml + 1} \cap Xmls

\* A preview accompanies the first pushes and any repeated push.
SvgChoices(session_id, xml) ==
  LET lst == DictGet(_history, session_id, <<>>)
  IN  IF Len(lst) < MaxShort \/ SameAsLast(lst, xml) THEN Svgs ELSE {DefaultSvg}

add_history(session_id, xml, svg) ==
  /\ MayAppend(session_id)
  /\ xml \in XmlChoices(session_id)
  /\ svg \in SvgChoices(session_id, xml)
  /\ _history' = AddHistoryResult(_history, session_id, xml, svg)
  /\ UNCHANGED <<now, patchVars, serverVars>>

get_history(session_id) ==
  /\ _history' = GetHistoryEffect(_history, session_id)
  /\ UNCHANGED <<now, patchVars, serverVars>>

get_version(session_id, index) ==
  /\ _history' = GetVersionEffect(_history, session_id)
  /\ UNCHANGED <<now, patchVars, serverVars>>

clear_history(session_id) ==
  /\ _history' = ClearHistoryResult(_history, session_id)
  /\ UNCHANGED <<now, patchVars, serverVars>>

get_history_count(session_id) ==
  /\ _history' = GetHistoryCountEffect(_history, session_id)
  /\ UNCHANGED <<now, patchVars, serverVars>>

\* Time passes between two calls.
Tick ==
  /\ now + 1 \in Instants
  /\ now' = now + 1
  /\ UNCHANGED <<_history, patchVars, serverVars>>

HistoryInit ==
  /\ _history = <<>>
  /\ now = 0
  /\ PatchIdle
  /\ ServerIdle

HistoryNext ==
  \/ \E s \in Sessions, xml \in Xmls, svg \in Svgs : add_history(s, xml, svg)
  \/ \E s \in Sessions : get_history(s)
  \/ \E s \in Sessions, i \in ProbeIndices : get_version(s, i)
  \/ \E s \in Sessions : clear_history(s)
  \/ \E s \in Sessions : get_history_count(s)
  \/ Tick

SpecHistory == HistoryInit /\ [][HistoryNext]_vars

\* What a caller can do with the values the reading calls return:
\* get_history returns the stored list object itself (line 60), so
\* get_history(s).pop(0) removes the oldest stored entry;
get_history_then_pop(session_id) ==
  /\ session_id \in DOMAIN _history
  /\ GetHistoryResult(_history, session_id) # <<>>
  /\ _history' = DictSet(_history, session_id, Tail(_history[session_id]))
  /\ UNCHANGED <<now, patchVars, serverVars>>

\* get_version returns the stored DiagramVersion object, whose attributes
\* are plain assignable fields (lines 15-17), so get_version(s, 0).xml = xml
\* rewrites the oldest stored entry.
get_version_then_set_xml(session_id, xml) ==
  /\ GetVersionResult(_history, session_id, 0) # None
  /\ GetVersionResult(_history, session_id, 0).xml # xml
  /\ _history' = DictSet(_history, session_id,
                         [_history[session_id] EXCEPT ![1].xml = xml])
  /\ UNCHANGED <<now, patchVars, serverVars>>

\* The xml a caller writes into a returned entry.
EditedXml == 0

HistoryCallerNext ==
  \/ HistoryNext
  \/ \E s \in Sessions : get_history_then_pop(s)
  \/ \E s \in Sessions : get_version_then_set_xml(s, EditedXml)

SpecHistoryCaller == HistoryInit /\ [][HistoryCallerNext]_vars

(***************************************************************************)
(* Properties of the version history.                                      *)
(***************************************************************************)
\* The entries of a session, the empty sequence for an unknown session.
Entries(h, s) == IF s \in DOMAIN h THEN h[s] ELSE <<>>

NewestIs(lst, xml) == Len(lst) > 0 /\ lst[Len(lst)].xml = xml

Front(lst) == SubSeq(lst, 1, Len(lst) - 1)

XmlsOf(lst) == [i \in 1 .. Len(lst) |-> lst[i].xml]

\* This step is the call add_history(s, xml, svg).
IsAdd(s, xml, svg) ==
  /\ xml \in XmlChoices(s)
  /\ svg \in SvgChoices(s, xml)
  /\ add_history(s, xml, svg)

\* This step is a call add_history(s, xml, ...) with an xml that differs
\* from the newest entry of s.
IsNewAppend(s) ==
  \E xml \in XmlChoices(s) : \E svg \in Svgs :
      ~NewestIs(Entries(_history, s), xml) /\ IsAdd(s, xml, svg)

\* C1: every session holds at most 50 entries, and an append that would
\* make a session exceed 50 leaves it with exactly 50.
C1_HistoryBounded ==
  [][\A s \in Sessions :
       /\ Len(Entries(_history', s)) <= 50
       /\ (IsNewAppend(s) /\ Len(Entries(_history, s)) + 1 > 50)
            => Len(Entries(_history', s)) = 50]_histVars

\* A full session whose newest entry is the last revision a client pushes.
C1_Witness ==
  \E s \in DOMAIN _history :
      Len(_history[s]) = 50 /\ _history[s][50].xml = MaxSnap

\* C2: an append of a new snapshot to a session of 50 entries removes the
\* entry at index 0, keeps the other 49 in order and puts the snapshot last;
\* a session holding snapshots 1..50 holds 2..51 after snapshot 51.
C2_OldestFirstEviction ==
  [][\A s \in Sessions :
       (IsNewAppend(s) /\ Len(Entries(_history, s)) = 50)
         => /\ Len(_history'[s]) = 50
            /\ \A i \in 1 .. 49 : _history'[s][i] = _history[s][i + 1]
            /\ ~NewestIs(_history[s], _history'[s][50].xml)
            /\ (XmlsOf(_history[s]) = [i \in 1 .. 50 |-> i]
                  => XmlsOf(_history'[s]) = [i \in 1 .. 50 |-> i + 1])]_histVars

\* Snapshots 2..51 after 51 pushes: the entry of revision 1 was evicted and
\* the first entry was pushed at a later instant than revision 1 could be.
C2_Witness ==
  \E s \in DOMAIN _history :
      /\ XmlsOf(_history[s]) = [i \in 1 .. 50 |-> i + 1]
      /\ _history[s][1].svg = DefaultSvg
      /\ _history[s][1].timestamp = 1

\* C3: add_history changes nothing when the newest entry of the session has
\* the same xml, otherwise it appends exactly one entry; no two adjacent
\* entries of a session have the same xml.
C3_Dedup ==
  /\ [](\A s \in DOMAIN _history : \A i \in 1 .. Len(_history[s]) - 1 :
            _history[s][i].xml # _history[s][i + 1].xml)
  /\ [][\A s \in Sessions : \A xml \in XmlChoices(s) : \A svg \in Svgs :
          IsAdd(s, xml, svg) =>
            IF NewestIs(Entries(_history, s), xml)
            THEN _history' = _history
            ELSE /\ _history'[s][Len(_history'[s])] =
                       [xml |-> xml, svg |-> svg, timestamp |-> now]
                 /\ \/ Front(_history'[s]) = Entries(_history, s)
                    \/ /\ Len(Entries(_history, s)) = 50
                       /\ Front(_history'[s]) = Tail(_history[s])]_histVars

\* A session of several entries whose newest entry has no preview and can be
\* pushed again, with a preview.
C3_Witness ==
  \E s \in DOMAIN _history :
      /\ Len(_history[s]) >= 2
      /\ _history[s][1].svg = "p"
      /\ _history[s][Len(_history[s])].svg = DefaultSvg
      /\ _history[s][Len(_history[s])].xml \in XmlChoices(s)

\* C4: for a session of n entries get_version returns the (i+1)-th oldest
\* entry for 0 <= i < n, the entry counted from the newest for -n <= i < 0,
\* and None for every other index and for an unknown session.
C4_Lookup ==
  \A s \in Sessions : \A i \in Indices :
    LET n == Len(Entries(_history, s))
        r == GetVersionResult(_history, s, i)
    IN  /\ (0 <= i /\ i < n) => r = _history[s][i + 1]
        /\ (0 - n <= i /\ i < 0) => r = _history[s][n + i + 1]
        /\ (i >= n \/ i < 0 - n) => r = None

\* A full session and an unknown one: index -50 is the oldest entry, -1 the
\* newest, 50 and -51 are not found.
C4_Witness ==
  \E s \in DOMAIN _history : \E t \in Sessions \ DOMAIN _history :
      /\ Len(_history[s]) = 50
      /\ _history[s][1] # _history[s][50]
      /\ GetVersionResult(_history, s, 0 - 50) = _history[s][1]
      /\ GetVersionResult(_history, s, 0 - 1) = _history[s][50]
      /\ GetVersionResult(_history, s, 50) = None
      /\ GetVersionResult(_history, t, 0) = None

\* C5: a stored entry keeps its xml, svg and timestamp and the entries of a
\* session keep their order; an entry disappears only by eviction at the cap
\* or by clear_history, whatever the callers do with the returned values.
C5_EntriesImmutable ==
  [][\A s \in (DOMAIN _history) \cap (DOMAIN _history') :
       LET old == _history[s]
           new == _history'[s]
       IN  \/ new = old
           \/ Len(new) = Len(old) + 1 /\ Front(new) = old
           \/ Len(old) = 50 /\ Len(new) = 50 /\ Front(new) = Tail(old)]_histVars

\* This step is a call add_history(s, ...) or clear_history(s).
IsWrite(s) ==
  \/ \E xml \in XmlChoices(s) : \E svg \in Svgs : IsAdd(s, xml, svg)
  \/ clear_history(s)

\* This step is a reading call on session s.
IsRead(s) ==
  \/ get_history(s)
  \/ get_history_count(s)
  \/ \E i \in ProbeIndices : get_version(s, i)

OthersUnchanged(s) ==
  \A t \in Sessions \ {s} :
      /\ (t \in DOMAIN _history') = (t \in DOMAIN _history)
      /\ Entries(_history', t) = Entries(_history, t)

\* C6: add_history(s) and clear_history(s) change the entries of s only,
\* the reading calls change nothing, and no call stores an empty list.
C6_SessionsIndependent ==
  /\ [](\A s \in DOMAIN _history : _history[s] # <<>>)
  /\ [][\A s \in Sessions :
          (IsWrite(s) => OthersUnchanged(s)) /\ (IsRead(s) => _history' = _history)]_histVars

\* Two sessions hold entries and one of them has just been appended to at
\* the later instant.
C6_Witness ==
  /\ DOMAIN _history = Sessions
  /\ \E s \in Sessions : _history[s][Len(_history[s])].timestamp = 1
  /\ \E s \in Sessions : _history[s][Len(_history[s])].timestamp = 0
(***************************************************************************)
(* diagram_operations.py                                                   *)
(***************************************************************************)
\* The longest operation list passed to apply_diagram_operations.
MaxOps == 2

\* An mxCell element.  nid is the identity of the element object in a
\* parsed tree (0 in a text, which has no objects); kids are the mxCell
\* elements nested in it.
Cell(id, value, source, target, kids) ==
  [nid |-> 0, id |-> id, value |-> value, source |-> source, target |-> target,
   kids |-> kids]

Vertex(id, value) == Cell(id, value, "", "", <<>>)

\* An xml text: whether it is well-formed, whether it has a <root> element,
\* whether it is written byte for byte the way minidom's toxml writes it
\* (the declaration <?xml version="1.0" ?> first, attributes in double
\* quotes, empty elements closed with />), and the cells under <root>.
Text(wf, root, canon, kids) == [wf |-> wf, root |-> root, canon |-> canon, kids |-> kids]

MalformedText == Text(FALSE, FALSE, FALSE, <<>>)
NoRootText == Text(TRUE, FALSE, FALSE, <<>>)

\* The two background cells every draw.io document starts with.
Background == <<Vertex("0", ""), Vertex("1", "")>>

\* The cells of the documents passed in: none; A; A and B; A and an edge B
\* from A; A with B nested in it; A, B and C.  The ids of a document are
\* pairwise distinct.
UserCells ==
  { <<>>,
    <<Vertex("A", "v")>>,
    <<Vertex("A", "v"), Vertex("B", "v")>>,
    <<Vertex("A", "v"), Cell("B", "v", "A", "", <<>>)>>,
    <<Cell("A", "v", "", "", <<Vertex("B", "v")>>)>>,
    <<Vertex("A", "v"), Vertex("B", "v"), Vertex("C", "v")>> }

Texts ==
  {MalformedText, NoRootText}
    \cup {Text(TRUE, TRUE, FALSE, Background \o u) : u \in UserCells}
    \cup {Text(TRUE, TRUE, TRUE, Background \o <<Vertex("A", "v"), Vertex("B", "v")>>)}

\* The new_xml of an operation: None, or a text (the cells of a fragment are
\* the mxCell elements under the <wrapper> it is parsed in).
MalformedFragment == Text(FALSE, FALSE, FALSE, <<>>)
Fragment(kids) == Text(TRUE, FALSE, FALSE, kids)
NoCellFragment == Fragment(<<>>)
One(id) == Fragment(<<Vertex(id, "w")>>)
Nested(id, inner) == Fragment(<<Cell(id, "w", "", "", <<Vertex(inner, "w")>>)>>)
Siblings(id, second) == Fragment(<<Vertex(id, "w"), Vertex(second, "w")>>)

\* class DiagramOperation
DiagramOperation(operation, cell_id, new_xml) ==
  [operation |-> operation, cell_id |-> cell_id, new_xml |-> new_xml]

\* class OperationError; message holds the fixed part of the message text.
OperationError(op_type, cell_id, message) ==
  [type |-> op_type, cell_id |-> cell_id, message |-> message]

\* Operations whose payload is one cell (or a cell with a nested cell) of
\* the target id, and deletions.
CoreOps ==
  { DiagramOperation("delete", "A", None),
    DiagramOperation("delete", "B", None),
    DiagramOperation("update", "A", One("A")),
    DiagramOperation("update", "B", One("B")),
    DiagramOperation("add", "A", One("A")),
    DiagramOperation("add", "B", One("B")),
    DiagramOperation("update", "A", Nested("A", "B")),
    DiagramOperation("add", "A", Nested("A", "B")) }

\* Operations with a missing, malformed, cell-less, mismatching or
\* two-cell payload, an operation of no known kind, and the deletion of a
\* background cell.
OddOps ==
  { DiagramOperation("delete", "0", None),
    DiagramOperation("update", "A", None),
    DiagramOperation("update", "A", MalformedFragment),
    DiagramOperation("update", "A", NoCellFragment),
    DiagramOperation("update", "A", One("B")),
    DiagramOperation("update", "A", Siblings("A", "B")),
    DiagramOperation("add", "B", None),
    DiagramOperation("add", "B", MalformedFragment),
    DiagramOperation("add", "B", NoCellFragment),
    DiagramOperation("add", "B", One("A")),
    DiagramOperation("move", "A", One("A")) }

AllOps == CoreOps \cup OddOps

\* The operation lists passed in: up to MaxOps operations.
OpLists == UNION { [1 .. n -> AllOps] : n \in 0 .. MaxOps }

(* The DOM *)

RECURSIVE Size(_)
\* The number of mxCell elements in a sequence of trees.
Size(kids) ==
  IF kids = <<>> THEN 0 ELSE 1 + Size(Head(kids).kids) + Size(Tail(kids))

RECURSIVE Label(_, _)
\* The trees with fresh element identities n, n + 1, ... in document order:
\* what parseString and importNode(node, True) build.
Label(kids, n) ==
  IF kids = <<>> THEN <<>>
  ELSE LET h == Head(kids)
       IN  <<[h EXCEPT !.nid = n, !.kids = Label(h.kids, n + 1)]>>
             \o Label(Tail(kids), n + 1 + Size(h.kids))

RECURSIVE Strip(_)
\* The trees without element identities: what toxml writes.
Strip(kids) ==
  IF kids = <<>> THEN <<>>
  ELSE <<[Head(kids) EXCEPT !.nid = 0, !.kids = Strip(Head(kids).kids)]>>
         \o Strip(Tail(kids))

RECURSIVE getElementsByTagName(_)
\* getElementsByTagName('mxCell'): every mxCell descendant, in document order.
getElementsByTagName(kids) ==
  IF kids = <<>> THEN <<>>
  ELSE <<Head(kids)>> \o getElementsByTagName(Head(kids).kids)
         \o getElementsByTagName(Tail(kids))

RECURSIVE replaceChild(_, _, _)
\* existing.parentNode.replaceChild(new, existing), seen from <root>: the
\* element of identity nid gives its place to new; nothing changes under
\* <root> when that element is not in the tree of <root> any more.
replaceChild(kids, new, nid) ==
  IF kids = <<>> THEN <<>>
  ELSE LET h == Head(kids)
       IN  IF h.nid = nid THEN <<new>> \o Tail(kids)
           ELSE <<[h EXCEPT !.kids = replaceChild(h.kids, new, nid)]>>
                  \o replaceChild(Tail(kids), new, nid)

RECURSIVE removeChild(_, _)
\* existing.parentNode.removeChild(existing), seen from <root>.
removeChild(kids, nid) ==
  IF kids = <<>> THEN <<>>
  ELSE LET h == Head(kids)
       IN  IF h.nid = nid THEN Tail(kids)
           ELSE <<[h EXCEPT !.kids = removeChild(h.kids, nid)]>>
                  \o removeChild(Tail(kids), nid)

\* root.appendChild(new)
appendChild(kids, new) == Append(kids, new)

\* minidom.parseString(xml_content): the labelled cells under <root>.
parseString(text) == Label(text.kids, 1)

\* doc.toxml(): always in minidom's own form.
toxml(kids) == Text(TRUE, TRUE, TRUE, Strip(kids))

\* Lines 61-65: the cell map of a tree, a later cell of an id replacing an
\* earlier one; cells without id are left out.
BuildCellMap(kids) ==
  LET cells == getElementsByTagName(kids)
      ids == {cells[k].id : k \in 1 .. Len(cells)} \ {""}
      last(id) == CHOOSE k \in 1 .. Len(cells) :
                    /\ cells[k].id = id
                    /\ \A m \in 1 .. Len(cells) : cells[m].id = id => m <= k
  IN  [id \in ids |-> cells[last(id)].nid]

\* The state of the loop of apply_diagram_operations.
LoopState(d, m, e, p, n) ==
  [doc |-> d, cell_map |-> m, errors |-> e, printed |-> p, nextNid |-> n]

\* An errors.append that puts the entry at the front of the list.
WithError_AtFront(st, err) == [st EXCEPT !.errors = <<err>> \o st.errors]

\* errors.append(err)
WithError(st, err) == [st EXCEPT !.errors = Append(st.errors, err)]

\* Lines 78-92 and 114-128: what the payload of an update or add is found
\* to be: "malformed" (parseString raises), "no_cell", "mismatch" or "ok".
FragmentCheck(op) ==
  IF ~op.new_xml.wf THEN "malformed"
  ELSE LET new_cells == getElementsByTagName(op.new_xml.kids)
       IN  IF new_cells = <<>> THEN "no_cell"
           ELSE IF new_cells[1].id # op.cell_id THEN "mismatch"
           ELSE "ok"

\* new_cells[0] imported into the document with importNode(new_cell, True).
ImportedNode(op, n) == Label(<<getElementsByTagName(op.new_xml.kids)[1]>>, n)[1]

\* Lines 94-100: the replacement of an update that passed every check.
DoUpdate(st, op) ==
  LET imported_node == ImportedNode(op, st.nextNid)
  IN  [st EXCEPT
         !.doc = replaceChild(st.doc, imported_node, st.cell_map[op.cell_id]),
         !.cell_map = DictSet(st.cell_map, op.cell_id, imported_node.nid),
         !.nextNid = st.nextNid + Size(<<imported_node>>)]

\* Lines 130-135: the insertion of an add that passed every check.
DoAdd(st, op) ==
  LET imported_node == ImportedNode(op, st.nextNid)
  IN  [st EXCEPT
         !.doc = appendChild(st.doc, imported_node),
         !.cell_map = DictSet(st.cell_map, op.cell_id, imported_node.nid),
         !.nextNid = st.nextNid + Size(<<imported_node>>)]

\* Lines 145-149: the warnings printed before a removal.
DeleteWarnings(st, op) ==
  LET cells == getElementsByTagName(st.doc)
      refs == SelectSeq(cells, LAMBDA c : c.source = op.cell_id \/ c.target = op.cell_id)
  IN  [k \in 1 .. Len(refs) |-> [cell_id |-> op.cell_id, edge_id |-> refs[k].id]]

\* A removal that forgets the id and leaves the element in the tree.
DoDelete_MapOnly(st, op) ==
  [st EXCEPT
     !.cell_map = DictDel(st.cell_map, op.cell_id),
     !.printed = st.printed \o DeleteWarnings(st, op)]

\* Lines 151-154: the removal.
DoDelete(st, op) ==
  [st EXCEPT
     !.doc = removeChild(st.doc, st.cell_map[op.cell_id]),
     !.cell_map = DictDel(st.cell_map, op.cell_id),
     !.printed = st.printed \o DeleteWarnings(st, op)]

\* Lines 69-103: one update operation.
ApplyUpdate(st, op) ==
  IF op.cell_id \notin DOMAIN st.cell_map
  THEN WithError(st, OperationError("update", op.cell_id, "Cell with id not found"))
  ELSE IF op.new_xml = None
  THEN WithError(st, OperationError("update", op.cell_id, "new_xml is required for update operation"))
  ELSE IF FragmentCheck(op) = "malformed"
  THEN WithError(st, OperationError("update", op.cell_id, "Failed to parse new_xml"))
  ELSE IF FragmentCheck(op) = "no_cell"
  THEN WithError(st, OperationError("update", op.cell_id, "new_xml must contain an mxCell element"))
  ELSE IF FragmentCheck(op) = "mismatch"
  THEN WithError(st, OperationError("update", op.cell_id, "ID mismatch"))
  ELSE DoUpdate(st, op)

\* An add that appends the imported node before it compares the ids.
ApplyAdd_LateCheck(st, op) ==
  IF op.cell_id \in DOMAIN st.cell_map
  THEN WithError(st, OperationError("add", op.cell_id, "Cell with id already exists"))
  ELSE IF op.new_xml = None
  THEN WithError(st, OperationError("add", op.cell_id, "new_xml is required for add operation"))
  ELSE IF FragmentCheck(op) = "malformed"
  THEN WithError(st, OperationError("add", op.cell_id, "Failed to parse new_xml"))
  ELSE IF FragmentCheck(op) = "no_cell"
  THEN WithError(st, OperationError("add", op.cell_id, "new_xml must contain an mxCell element"))
  ELSE IF FragmentCheck(op) = "mismatch"
  THEN WithError(DoAdd(st, op), OperationError("add", op.cell_id, "ID mismatch"))
  ELSE DoAdd(st, op)

\* Lines 105-138: one add operation.
ApplyAdd(st, op) ==
  IF op.cell_id \in DOMAIN st.cell_map
  THEN WithError(st, OperationError("add", op.cell_id, "Cell with id already exists"))
  ELSE IF op.new_xml = None
  THEN WithError(st, OperationError("add", op.cell_id, "new_xml is required for add operation"))
  ELSE IF FragmentCheck(op) = "malformed"
  THEN WithError(st, OperationError("add", op.cell_id, "Failed to parse new_xml"))
  ELSE IF FragmentCheck(op) = "no_cell"
  THEN WithError(st, OperationError("add", op.cell_id, "new_xml must contain an mxCell element"))
  ELSE IF FragmentCheck(op) = "mismatch"
  THEN WithError(st, OperationError("add", op.cell_id, "ID mismatch"))
  ELSE DoAdd(st, op)

\* Lines 140-154: one delete operation.
ApplyDelete(st, op) ==
  IF op.cell_id \notin DOMAIN st.cell_map
  THEN WithError(st, OperationError("delete", op.cell_id, "Cell with id not found"))
  ELSE DoDelete(st, op)

\* Lines 68-154: the body of the for loop; an operation of another kind
\* matches no branch.
ApplyOperation(st, op) ==
  IF op.operation = "update" THEN ApplyUpdate(st, op)
  ELSE IF op.operation = "add" THEN ApplyAdd(st, op)
  ELSE IF op.operation = "delete" THEN ApplyDelete(st, op)
  ELSE st

\* Line 47 and line 55: the error entries of the two early returns.
ParseErrorEntry == OperationError("parse", "", "XML parse error")

\* A missing <root> reported with the entry of a parse failure.
RootMissingEntry_AsParse == ParseErrorEntry

RootMissingEntry == OperationError("parse", "", "Could not find <root> element in XML")

\* The dictionary apply_diagram_operations returns.
Returned(result, errs) == [result |-> result, errors |-> errs]

Current == LoopState(doc, cell_map, errors, printed, nextNid)

SetLoopState(st) ==
  /\ doc' = st.doc
  /\ cell_map' = st.cell_map
  /\ errors' = st.errors
  /\ printed' = st.printed
  /\ nextNid' = st.nextNid

\* A parse failure that records its error and goes on to the loop.
ParseFails_NoReturn ==
  /\ pc = "parse"
  /\ ~xml_content.wf
  /\ errors' = <<ParseErrorEntry>>
  /\ opIndex' = 1
  /\ pc' = "loop"
  /\ UNCHANGED <<xml_content, operations, doc, cell_map, printed, nextNid,
                 returned, histVars, serverVars>>

\* Lines 41-48: parseString raises.
ParseFails ==
  /\ pc = "parse"
  /\ ~xml_content.wf
  /\ returned' = Returned(xml_content, <<ParseErrorEntry>>)
  /\ pc' = "done"
  /\ UNCHANGED <<xml_content, operations, opIndex, doc, cell_map, errors, printed,
                 nextNid, histVars, serverVars>>

\* Lines 50-56: the document has no <root> element.
RootMissing ==
  /\ pc = "parse"
  /\ xml_content.wf
  /\ ~xml_content.root
  /\ returned' = Returned(xml_content, <<RootMissingEntry>>)
  /\ pc' = "done"
  /\ UNCHANGED <<xml_content, operations, opIndex, doc, cell_map, errors, printed,
                 nextNid, histVars, serverVars>>

\* Lines 43-65: the document is parsed, <root> found and the cell map built.
BuildMap ==
  /\ pc = "parse"
  /\ xml_content.wf
  /\ xml_content.root
  /\ doc' = parseString(xml_content)
  /\ cell_map' = BuildCellMap(parseString(xml_content))
  /\ nextNid' = 1 + Size(xml_content.kids)
  /\ opIndex' = 1
  /\ pc' = "loop"
  /\ UNCHANGED <<xml_content, operations, errors, printed, returned, histVars, serverVars>>

\* Lines 68-154: one turn of the for loop.
ProcessOperation ==
  /\ pc = "loop"
  /\ opIndex <= Len(operations)
  /\ SetLoopState(ApplyOperation(Current, operations[opIndex]))
  /\ opIndex' = opIndex + 1
  /\ UNCHANGED <<xml_content, operations, pc, returned, histVars, serverVars>>

\* Lines 156-162: the tree is serialized and returned.
Serialize ==
  /\ pc = "loop"
  /\ opIndex > Len(operations)
  /\ returned' = Returned(toxml(doc), errors)
  /\ pc' = "done"
  /\ UNCHANGED <<xml_content, operations, opIndex, doc, cell_map, errors, printed,
                 nextNid, histVars, serverVars>>

PatchInit ==
  /\ xml_content \in Texts
  /\ operations \in OpLists
  /\ pc = "parse"
  /\ opIndex = 0
  /\ doc = <<>> /\ cell_map = <<>> /\ errors = <<>> /\ printed = <<>>
  /\ nextNid = 0 /\ returned = <<>>
  /\ _history = <<>> /\ now = 0
  /\ ServerIdle

PatchNext ==
  \/ ParseFails
  \/ RootMissing
  \/ BuildMap
  \/ ProcessOperation
  \/ Serialize

SpecPatch == PatchInit /\ [][PatchNext]_vars

(***************************************************************************)
(* Properties of the patch engine.                                         *)
(***************************************************************************)
\* No operation has been attempted: the loop was never entered.
NothingAttempted ==
  opIndex = 0 /\ doc = <<>> /\ cell_map = <<>> /\ errors = <<>> /\ printed = <<>>

\* C7: when the input text does not parse, the original text comes back
\* unchanged with exactly one error entry and no operation is attempted.
C7_ParseFailureShortCircuits ==
  (pc = "done" /\ ~xml_content.wf) =>
     /\ returned.result = xml_content
     /\ Len(returned.errors) = 1
     /\ returned.errors[1].type = "parse"
     /\ returned.errors[1].message = "XML parse error"
     /\ NothingAttempted

\* A text that does not parse, passed with a full operation list.
C7_Witness ==
  /\ pc = "done" /\ ~xml_content.wf
  /\ Len(operations) = MaxOps
  /\ \A k \in 1 .. MaxOps : operations[k] \in CoreOps
  /\ returned.result = MalformedText

\* C8: when the input parses but has no <root>, the original text comes
\* back unchanged with exactly one error entry, which differs from the entry
\* of a parse failure, and no operation is attempted.
C8_MissingRootShortCircuits ==
  (pc = "done" /\ xml_content.wf /\ ~xml_content.root) =>
     /\ returned.result = xml_content
     /\ Len(returned.errors) = 1
     /\ returned.errors[1] # OperationError("parse", "", "XML parse error")
     /\ returned.errors[1].message = "Could not find <root> element in XML"
     /\ NothingAttempted

\* A text without <root>, passed with a full operation list.
C8_Witness ==
  /\ pc = "done" /\ xml_content = NoRootText
  /\ Len(operations) = MaxOps
  /\ \A k \in 1 .. MaxOps : operations[k] \in CoreOps
  /\ returned.result = NoRootText

\* The loop state before the first operation of this call.
LoopStart(text) ==
  LoopState(parseString(text), BuildCellMap(parseString(text)), <<>>, <<>>,
            1 + Size(text.kids))

RECURSIVE AfterOps(_, _, _)
\* The loop state of the batch ops on text after its first k operations.
AfterOps(text, ops, k) ==
  IF k = 0 THEN LoopStart(text)
  ELSE ApplyOperation(AfterOps(text, ops, k - 1), ops[k])

\* The k-th operation of the batch ended in an error.
Errored(text, ops, k) ==
  Len(AfterOps(text, ops, k).errors) > Len(AfterOps(text, ops, k - 1).errors)

\* The text one call with the single operation op returns.
AppliedAlone(text, op) == toxml(ApplyOperation(LoopStart(text), op).doc)

RECURSIVE OneAfterAnother(_, _, _)
\* The text obtained by applying the first k operations of the batch one
\* after another, each in a call of its own, skipping those that errored in
\* the batch.
OneAfterAnother(text, ops, k) ==
  IF k = 0 THEN toxml(parseString(text))
  ELSE IF Errored(text, ops, k) THEN OneAfterAnother(text, ops, k - 1)
  ELSE AppliedAlone(OneAfterAnother(text, ops, k - 1), ops[k])

\* C9: every operation of the batch is processed, in input order, an error
\* does not stop the batch, and the cells of the result are those obtained by
\* applying the operations one after another, skipping those that errored.
C9_BatchIsSequential ==
  (pc = "done" /\ xml_content.wf /\ xml_content.root) =>
     /\ opIndex = Len(operations) + 1
     /\ returned.result.kids =
          OneAfterAnother(xml_content, operations, Len(operations)).kids

\* This step is one turn of the loop.
IsOperationStep == pc = "loop" /\ opIndex' = opIndex + 1

\* C10: an operation that adds an error entry leaves the cell tree and the
\* cell map as they were.
C10_ErrorLeavesStateUnchanged ==
  [][(IsOperationStep /\ Len(errors') > Len(errors))
        => (doc' = doc /\ cell_map' = cell_map)]_vars

\* An operation changed the tree and a later one of the batch ended in an
\* id mismatch.
C10_Witness ==
  /\ pc = "loop" /\ opIndex = 3
  /\ Strip(doc) # xml_content.kids
  /\ Len(errors) = 1
  /\ errors[1].message = "ID mismatch"

(***************************************************************************)
(* Properties of single operations.                                        *)
(***************************************************************************)
\* The operation this turn of the loop processes.
CurOp == operations[opIndex]

\* This turn of the loop added an error entry.
NewError == Len(errors') > Len(errors)

\* This turn of the loop added an error entry with this message.
NewErrorIs(message) ==
  /\ Len(errors') = Len(errors) + 1
  /\ errors'[Len(errors')] = OperationError(CurOp.operation, CurOp.cell_id, message)

\* The ids of the cells in a tree.
Ids(kids) ==
  LET cells == getElementsByTagName(kids)
  IN  {cells[k].id : k \in 1 .. Len(cells)}

\* The document passed in holds exactly the cells A and B.
HoldsAAndB == Strip(xml_content.kids) = Background \o <<Vertex("A", "v"), Vertex("B", "v")>>

\* C11: on a document with the cells A and B, the batch of the single
\* operation update(A, fragment of another id) returns an id mismatch error
\* and a text byte-identical to the text passed in.
C11_IdMismatchKeepsTextIdentical ==
  (/\ pc = "done" /\ xml_content.wf /\ xml_content.root /\ HoldsAAndB
   /\ operations = <<DiagramOperation("update", "A", One("B"))>>)
    => /\ returned.errors = <<OperationError("update", "A", "ID mismatch")>>
       /\ returned.result = xml_content

RECURSIVE InPlace(_, _, _, _)
\* new is old with one element of this id replaced, where it stood, by the
\* element of identity nid carrying the same id; nothing else differs.
InPlace(old, new, id, nid) ==
  /\ Len(new) = Len(old)
  /\ \E k \in 1 .. Len(old) :
       /\ \A j \in 1 .. Len(old) : j # k => new[j] = old[j]
       /\ \/ old[k].id = id /\ new[k].id = id /\ new[k].nid = nid
          \/ /\ [new[k] EXCEPT !.kids = old[k].kids] = old[k]
             /\ InPlace(old[k].kids, new[k].kids, id, nid)

\* C12: an update that ends without error replaces the element of that id
\* where it stands in the document: same position, same siblings in the same
\* order, every other cell as it was, and the map entry of the id is the new
\* element.
C12_UpdateReplacesInPlace ==
  [][(IsOperationStep /\ CurOp.operation = "update" /\ ~NewError)
        => LET old == doc
               new == doc'
           IN  /\ InPlace(old, new, CurOp.cell_id, nextNid)
               /\ cell_map'[CurOp.cell_id] = nextNid]_vars

\* C13: add(id) ends in 'already exists' exactly when a cell of that id is
\* in the document at that point of the batch, and update(id) and delete(id)
\* end in 'not found' exactly when none is.
C13_ExistenceChecksSeeBatch ==
  [][IsOperationStep
        => LET present == CurOp.cell_id \in Ids(doc)
           IN  /\ CurOp.operation = "add"
                    => (NewErrorIs("Cell with id already exists") <=> present)
               /\ CurOp.operation \in {"update", "delete"}
                    => (NewErrorIs("Cell with id not found") <=> ~present)]_vars

\* C14: an add that ends without error inserts exactly one cell, as the last
\* child of <root>, leaves the cells that were there and their order as they
\* were, and enters the id in the map.
C14_AddAppendsOneCell ==
  [][(IsOperationStep /\ CurOp.operation = "add" /\ ~NewError)
        => LET old == doc
               new == doc'
           IN  /\ Len(new) = Len(old) + 1
               /\ SubSeq(new, 1, Len(old)) = old
               /\ new[Len(new)].id = CurOp.cell_id
               /\ Size(new) = Size(old) + 1
               /\ cell_map' = DictSet(cell_map, CurOp.cell_id, new[Len(new)].nid)]_vars

\* An update or add whose target passed the existence check and whose
\* payload is given and parses.
PayloadParsed ==
  /\ IsOperationStep
  /\ \/ CurOp.operation = "update" /\ CurOp.cell_id \in DOMAIN cell_map
     \/ CurOp.operation = "add" /\ CurOp.cell_id \notin DOMAIN cell_map
  /\ CurOp.new_xml # None
  /\ CurOp.new_xml.wf

\* C15: an update or add succeeds only if its payload holds exactly one
\* cell element, of the target id; a payload with no cell or with more than
\* one (siblings or nested) ends in a 'malformed fragment' error, one whose
\* cell has another id in an 'id mismatch' error, and nothing is applied.
C15_FragmentValidation ==
  [][PayloadParsed
        => LET n == Size(CurOp.new_xml.kids)
           IN  /\ ~NewError => (n = 1 /\ CurOp.new_xml.kids[1].id = CurOp.cell_id)
               /\ n # 1 => /\ NewErrorIs("new_xml must contain an mxCell element")
                           /\ doc' = doc /\ cell_map' = cell_map
               /\ (n = 1 /\ CurOp.new_xml.kids[1].id # CurOp.cell_id)
                    => /\ NewErrorIs("ID mismatch")
                       /\ doc' = doc /\ cell_map' = cell_map]_vars

\* The cells of a tree that refer to id as their source or target.
ReferringEdges(kids, id) ==
  SelectSeq(getElementsByTagName(kids), LAMBDA c : c.source = id \/ c.target = id)

\* C16: the deletion of a cell that edges refer to succeeds: the cell is
\* removed, the edges stay with their reference as it was, and the error list
\* receives one warning entry for each edge that refers to the cell.
C16_DeleteWarnsInErrorList ==
  [][(IsOperationStep /\ CurOp.operation = "delete" /\ CurOp.cell_id \in Ids(doc))
        => LET id == CurOp.cell_id
               edges == ReferringEdges(doc, id)
           IN  /\ id \notin Ids(doc')
               /\ ReferringEdges(doc', id) = edges
               /\ Len(errors') = Len(errors) + Len(edges)
               /\ \A k \in 1 .. Len(edges) :
                    errors'[Len(errors) + k].cell_id \in {id, edges[k].id}]_vars

\* The batch is add(C, fragment whose cell has the id C) followed by
\* delete(C), for an id C the document passed in does not hold.
IsAddThenDelete ==
  /\ Len(operations) = 2
  /\ operations[1].operation = "add"
  /\ operations[1].new_xml # None
  /\ operations[1].new_xml.wf
  /\ operations[1].new_xml.kids # <<>>
  /\ operations[1].new_xml.kids[1].id = operations[1].cell_id
  /\ operations[2] = DiagramOperation("delete", operations[1].cell_id, None)
  /\ operations[1].cell_id \notin Ids(xml_content.kids)

C18_BackgroundCellsKept ==
  (pc = "done" /\ xml_content.wf /\ xml_content.root)
    => /\ Len(returned.result.kids) >= 2
       /\ SubSeq(returned.result.kids, 1, 2) = Background

\* The ids of the cells of a tree are pairwise distinct.
DistinctIds(kids) == Cardinality(Ids(kids)) = Size(kids)

\* C19: when the ids of the document passed in are pairwise distinct, so
\* are the ids of the result, whatever the batch and its fragments.
C19_IdsStayDistinct ==
  (pc = "done" /\ xml_content.wf /\ xml_content.root /\ DistinctIds(xml_content.kids))
    => DistinctIds(returned.result.kids)

\* C20: every operation of a batch on a valid document either changes the
\* document (its target is replaced, added or removed there) or adds an entry
\* to the error list, whatever kind tag it was built with.
C20_NoSilentFailure ==
  [][IsOperationStep => (NewError \/ doc' # doc)]_vars

\* C21: an operation adds at most one entry to the error list, at its end,
\* carrying the kind and the target id of that operation, so the entries
\* stand in the order of their operations; the list returned is that list.
C21_ErrorsOrderedLikeBatch ==
  [][(IsOperationStep
        => (\/ errors' = errors
            \/ /\ Len(errors') = Len(errors) + 1
               /\ SubSeq(errors', 1, Len(errors)) = errors
               /\ errors'[Len(errors')].type = CurOp.operation
               /\ errors'[Len(errors')].cell_id = CurOp.cell_id))
     /\ ((pc = "loop" /\ pc' = "done") => (returned'.errors = errors))]_vars

\* Both operations of a batch ended in an error, the first an add and the
\* second an update.
C21_Witness ==
  /\ pc = "done"
  /\ Len(operations) = 2
  /\ Len(returned.errors) = 2
  /\ returned.errors[1].type = "add"
  /\ returned.errors[2].type = "update"
  /\ returned.errors[1].cell_id # returned.errors[2].cell_id

\* C31: once the lookup is built, and after every operation of the batch,
\* the ids of the lookup are the ids of the cells attached to the document,
\* and each id maps to an attached element that carries it; nested cells of
\* the document and of the fragments included.
C31_LookupConsistent ==
  pc = "loop" =>
    LET cells == getElementsByTagName(doc)
    IN  /\ DOMAIN cell_map = Ids(doc) \ {""}
        /\ \A id \in DOMAIN cell_map :
             \E k \in 1 .. Len(cells) : cells[k].nid = cell_map[id] /\ cells[k].id = id

(***************************************************************************)
(* mcp_drawio_server.py                                                    *)
(***************************************************************************)
\* The largest number of identifiers one Diagram mints.
MaxCells == 3

(* Strings that end up in attribute values.  A string is a sequence of    *)
(* pieces: a piece is one of the five metacharacters & < > " ' or a run   *)
(* of other characters.                                                    *)

RECURSIVE replace(_, _, _)
\* str.replace(old, new) for a metacharacter old and the pieces new.
replace(text, old, new) ==
  IF text = <<>> THEN <<>>
  ELSE (IF Head(text) = old THEN new ELSE <<Head(text)>>) \o replace(Tail(text), old, new)

\* Diagram._escape_xml with the ampersand replaced last.
_escape_xml_AmpLast(text) ==
  replace(replace(replace(replace(replace(text,
    "<", <<"&", "lt;">>), ">", <<"&", "gt;">>), "\"", <<"&", "quot;">>),
    "'", <<"&", "apos;">>), "&", <<"&", "amp;">>)

\* Diagram._escape_xml
_escape_xml(text) ==
  replace(replace(replace(replace(replace(text,
    "&", <<"&", "amp;">>), "<", <<"&", "lt;">>), ">", <<"&", "gt;">>),
    "\"", <<"&", "quot;">>), "'", <<"&", "apos;">>)

\* The references the parser resolves in an attribute value: what follows
\* the ampersand (the predefined entities of XML and the character reference
\* of a line break, which draw.io writes in labels of several lines), and the
\* character each stands for.
EntityNames == {"amp;", "lt;", "gt;", "quot;", "apos;", "#10;"}

EntityChar(name) ==
  CASE name = "amp;" -> "&"
    [] name = "lt;" -> "<"
    [] name = "gt;" -> ">"
    [] name = "quot;" -> "\""
    [] name = "apos;" -> "'"
    [] name = "#10;" -> "\n"

RECURSIVE AttValueOk(_)
\* The XML parser accepts raw as the text between the double quotes of an
\* attribute: no <, no ", and every & starts a predefined entity.
AttValueOk(raw) ==
  IF raw = <<>> THEN TRUE
  ELSE IF Head(raw) \in {"<", "\""} THEN FALSE
  ELSE IF Head(raw) = "&"
       THEN /\ Len(raw) >= 2
            /\ raw[2] \in EntityNames
            /\ AttValueOk(Tail(Tail(raw)))
  ELSE AttValueOk(Tail(raw))

RECURSIVE Unescape(_)
\* The value the parser gives an attribute whose raw text is accepted: a
\* reference gives its character, a line break written as it is gives a
\* space (attribute-value normalization).
Unescape(raw) ==
  IF raw = <<>> THEN <<>>
  ELSE IF Head(raw) = "&" THEN <<EntityChar(raw[2])>> \o Unescape(Tail(Tail(raw)))
  ELSE IF Head(raw) = "\n" THEN <<" ">> \o Unescape(Tail(raw))
  ELSE <<Head(raw)>> \o Unescape(Tail(raw))

\* minidom's _write_data: how toxml writes an attribute value.  A line
\* break is written as it is.
_write_data(text) ==
  replace(replace(replace(replace(text,
    "&", <<"&", "amp;">>), "<", <<"&", "lt;">>), "\"", <<"&", "quot;">>),
    ">", <<"&", "gt;">>)

\* str() of a float whose value is a whole number, and of an int.
FloatStr(x) == ToString(x) \o ".0"
IntStr(n) == ToString(n)

(* The elements of a document text *)

\* An mxGeometry element.
MxGeometry(x, y, width, height, relative, as) ==
  [x |-> x, y |-> y, width |-> width, height |-> height, relative |-> relative,
   as |-> as]

\* An mxCell element: its attributes ("" for one that is not written), its
\* mxGeometry children and the mxCell elements nested in it.  value and
\* style hold the raw text between the quotes.
MxCell(id, value, style, vertex, edge, parent, source, target, geoms, kids) ==
  [nid |-> 0, id |-> id, value |-> value, style |-> style, vertex |-> vertex,
   edge |-> edge, parent |-> parent, source |-> source, target |-> target,
   geoms |-> geoms, kids |-> kids]

\* A document text: whether its markup outside attribute values is
\* well-formed, whether it starts with the declaration toxml writes, the raw
\* name of <diagram>, the modified stamp of <mxfile> and the cells of <root>.
DrawioText(wf, decl, name, modified, cells) ==
  [wf |-> wf, decl |-> decl, name |-> name, modified |-> modified, cells |-> cells]

\* Lines 119-120: the two cells every serialized diagram starts with.
BackgroundCells ==
  << MxCell("0", <<>>, <<>>, "", "", "", "", "", <<>>, <<>>),
     MxCell("1", <<>>, <<>>, "", "", "0", "", "", <<>>, <<>>) >>

(* class Diagram *)

\* class Shape and class Connection
Shape(id, label, x, y, width, height, shape_type, style) ==
  [id |-> id, label |-> label, x |-> x, y |-> y, width |-> width,
   height |-> height, shape_type |-> shape_type, style |-> style]

Connection(id, label, source_id, target_id, arrow_type, style) ==
  [id |-> id, label |-> label, source_id |-> source_id, target_id |-> target_id,
   arrow_type |-> arrow_type, style |-> style]

\* Diagram.__init__
Diagram(name) == [name |-> name, shapes |-> <<>>, connections |-> <<>>, next_id |-> 1]

\* The keys of a dict of elements, in insertion order.
Keys(items) == [k \in 1 .. Len(items) |-> items[k].id]

KeySet(items) == {items[k].id : k \in 1 .. Len(items)}

\* items[key] = value on a dict that keeps insertion order: a key that is
\* there keeps its place, a new key goes last.
SetItem(items, value) ==
  IF value.id \in KeySet(items)
  THEN [k \in 1 .. Len(items) |-> IF items[k].id = value.id THEN value ELSE items[k]]
  ELSE Append(items, value)

\* Lines 72 and 99: the identifiers minted from the counter.
ShapeId(n) == "shape_" \o ToString(n)
ConnId(n) == "conn_" \o ToString(n)

\* The exceptions the calls raise.
TypeError == [py |-> "TypeError"]
ValueError == [py |-> "ValueError"]

\* The outcome of a call: what it returned or what it raised.
Outcome(op, args, result, raised) ==
  [op |-> op, args |-> args, result |-> result, raised |-> raised]

\* An add_shape that leaves the counter where it was.
AddShape_KeepsCounter(d, a) ==
  [d EXCEPT
     !.shapes = SetItem(d.shapes,
                  Shape(ShapeId(d.next_id), a.label, a.x, a.y, a.width, a.height,
                        a.shape_type, a.style))]

\* Diagram.add_shape: the diagram after the call.
AddShape(d, a) ==
  [d EXCEPT
     !.shapes = SetItem(d.shapes,
                  Shape(ShapeId(d.next_id), a.label, a.x, a.y, a.width, a.height,
                        a.shape_type, a.style)),
     !.next_id = d.next_id + 1]

\* Line 96: the endpoint check of add_connection.
EndpointsKnown(d, a) ==
  a.source_id \in KeySet(d.shapes) /\ a.target_id \in KeySet(d.shapes)

\* An endpoint check that looks at the source only.
AddConnectionRaises_SourceOnly(d, a) ==
  IF a.extra # {} THEN TypeError
  ELSE IF a.source_id \notin KeySet(d.shapes) THEN ValueError
  ELSE None

\* Lines 87-97: what add_connection raises: TypeError for a keyword the
\* signature does not have, ValueError for an unknown endpoint.
AddConnectionRaises(d, a) ==
  IF a.extra # {} THEN TypeError
  ELSE IF ~EndpointsKnown(d, a) THEN ValueError
  ELSE None

\* An add_connection that mints the identifier before it checks the endpoints.
AddConnection_MintFirst(d, a) ==
  IF a.extra # {} THEN d
  ELSE IF AddConnectionRaises(d, a) # None THEN [d EXCEPT !.next_id = d.next_id + 1]
  ELSE [d EXCEPT
          !.connections = SetItem(d.connections,
                            Connection(ConnId(d.next_id), a.label, a.source_id,
                                       a.target_id, a.arrow_type, a.style)),
          !.next_id = d.next_id + 1]

\* Diagram.add_connection: the diagram after the call.
AddConnection(d, a) ==
  IF AddConnectionRaises(d, a) # None THEN d
  ELSE [d EXCEPT
          !.connections = SetItem(d.connections,
                            Connection(ConnId(d.next_id), a.label, a.source_id,
                                       a.target_id, a.arrow_type, a.style)),
          !.next_id = d.next_id + 1]

\* Diagram._get_default_style: unknown kinds get the style of a rectangle.
_get_default_style(shape_type) ==
  CASE shape_type = "ellipse" -> <<"ellipse;whiteSpace=wrap;html=1;">>
    [] shape_type = "diamond" -> <<"rhombus;whiteSpace=wrap;html=1;">>
    [] shape_type = "parallelogram" ->
         <<"shape=parallelogram;perimeter=parallelogramPerimeter;whiteSpace=wrap;html=1;">>
    [] shape_type = "hexagon" ->
         <<"shape=hexagon;perimeter=hexagonPerimeter2;whiteSpace=wrap;html=1;">>
    [] shape_type = "cylinder" ->
         <<"shape=cylinder3;whiteSpace=wrap;html=1;boundedLbl=1;backgroundOutline=1;size=15;">>
    [] shape_type = "cloud" -> <<"ellipse;shape=cloud;whiteSpace=wrap;html=1;">>
    [] OTHER -> <<"rounded=0;whiteSpace=wrap;html=1;">>

\* Line 137: the style of a connection without style override.
DefaultEdgeStyle(arrow_type) ==
  <<"edgeStyle=orthogonalEdgeStyle;rounded=0;orthogonalLoop=1;jettySize=auto;html=1;endArrow=",
    arrow_type, ";">>

\* Lines 123-133: the element written for a shape.
ShapeCell(shape) ==
  MxCell(shape.id, _escape_xml(shape.label),
         IF shape.style # <<>> THEN shape.style ELSE _get_default_style(shape.shape_type),
         "1", "", "1", "", "",
         <<MxGeometry(FloatStr(shape.x), FloatStr(shape.y), FloatStr(shape.width),
                      FloatStr(shape.height), "", "geometry")>>,
         <<>>)

\* Lines 136-143: the element written for a connection.
ConnectionCell(conn) ==
  MxCell(conn.id, _escape_xml(conn.label),
         IF conn.style # <<>> THEN conn.style ELSE DefaultEdgeStyle(conn.arrow_type),
         "", "1", "1", conn.source_id, conn.target_id,
         <<MxGeometry("", "", "", "", "1", "geometry")>>,
         <<>>)

\* A serialization that writes the connections before the shapes.
to_drawio_xml_ConnectionsFirst(d, timestamp) ==
  DrawioText(TRUE, FALSE, d.name, timestamp,
    BackgroundCells
      \o [k \in 1 .. Len(d.connections) |-> ConnectionCell(d.connections[k])]
      \o [k \in 1 .. Len(d.shapes) |-> ShapeCell(d.shapes[k])])

\* Diagram.to_drawio_xml: the name goes into the text as it is.
to_drawio_xml(d, timestamp) ==
  DrawioText(TRUE, FALSE, d.name, timestamp,
    BackgroundCells
      \o [k \in 1 .. Len(d.shapes) |-> ShapeCell(d.shapes[k])]
      \o [k \in 1 .. Len(d.connections) |-> ConnectionCell(d.connections[k])])

(* Reading a document text *)

\* minidom.parseString accepts the text.
WellFormed(text) ==
  /\ text # None
  /\ text.wf
  /\ AttValueOk(text.name)
  /\ LET cells == getElementsByTagName(text.cells)
     IN  \A k \in 1 .. Len(cells) : AttValueOk(cells[k].value) /\ AttValueOk(cells[k].style)

RECURSIVE Decode(_)
\* The cells as the parser builds them: attribute values unescaped.
Decode(cells) ==
  IF cells = <<>> THEN <<>>
  ELSE LET h == Head(cells)
       IN  <<[h EXCEPT !.value = Unescape(h.value), !.style = Unescape(h.style),
                       !.kids = Decode(h.kids)]>>
             \o Decode(Tail(cells))

\* parse_drawio_xml for a text that is accepted: the document tree.
parse_drawio_xml(text) ==
  [name |-> Unescape(text.name), modified |-> text.modified,
   cells |-> Label(Decode(text.cells), 1)]

RECURSIVE Geometries(_)
\* The mxGeometry elements under these cells, in document order.
Geometries(cells) ==
  IF cells = <<>> THEN <<>>
  ELSE Head(cells).geoms \o Geometries(Head(cells).kids) \o Geometries(Tail(cells))

\* cell.getElementsByTagName('mxGeometry'): every descendant, not only the
\* children of the cell.
GeometriesOf(cell) == Geometries(<<cell>>)

\* Lines 205-224: the dictionary get_cells_from_xml builds for a cell; the
\* geometry keys are there only when the cell has an mxGeometry descendant.
CellInfo(cell) ==
  [id |-> cell.id, value |-> cell.value, style |-> cell.style,
   vertex |-> (cell.vertex = "1"), edge |-> (cell.edge = "1"),
   source |-> cell.source, target |-> cell.target,
   geometry |-> IF GeometriesOf(cell) = <<>> THEN None
                ELSE LET g == GeometriesOf(cell)[1]
                     IN  [x |-> g.x, y |-> g.y, width |-> g.width, height |-> g.height]]

\* The cells a listing keeps: those with an id other than "0" and "1".
Listed(cells) == SelectSeq(cells, LAMBDA c : c.id # "" /\ c.id \notin {"0", "1"})

\* A listing that skips the first background cell only.
get_cells_from_xml_SkipsZero(text) ==
  IF ~WellFormed(text) THEN <<>>
  ELSE LET cells == SelectSeq(getElementsByTagName(parse_drawio_xml(text).cells),
                              LAMBDA c : c.id # "" /\ c.id # "0")
       IN  [k \in 1 .. Len(cells) |-> CellInfo(cells[k])]

\* get_cells_from_xml: the empty list for a text that does not parse.
get_cells_from_xml(text) ==
  IF ~WellFormed(text) THEN <<>>
  ELSE LET cells == Listed(getElementsByTagName(parse_drawio_xml(text).cells))
       IN  [k \in 1 .. Len(cells) |-> CellInfo(cells[k])]

\* diagram_operations.py extract_cells_info
extract_cells_info(text) ==
  IF ~WellFormed(text) THEN <<>>
  ELSE LET cells == Listed(getElementsByTagName(parse_drawio_xml(text).cells))
       IN  [k \in 1 .. Len(cells) |->
              [id |-> cells[k].id, value |-> cells[k].value, style |-> cells[k].style,
               vertex |-> cells[k].vertex, edge |-> cells[k].edge]]

(* The calls made on a Diagram *)

\* The names a Diagram is made with.
Names == { <<"Untitled">>, <<"A ", "&", " B">> }

\* The arguments of add_shape: plain; a label with every metacharacter
\* and a plain style override; a label that reads like an entity, with a
\* kind the style table does not have; a style override with a double quote.
ShapeArgs ==
  { [label |-> <<"s1">>, x |-> 0, y |-> 0, width |-> 100, height |-> 50,
     shape_type |-> "rectangle", style |-> <<>>],
    [label |-> <<"a", "<", "&", ">", "\"", "'">>, x |-> 200, y |-> 0, width |-> 100,
     height |-> 50, shape_type |-> "ellipse", style |-> <<"rounded=1;">>],
    [label |-> <<"&", "lt;">>, x |-> 0 - 5, y |-> 0, width |-> 120, height |-> 60,
     shape_type |-> "star", style |-> <<>>],
    [label |-> <<>>, x |-> 0, y |-> 0, width |-> 120, height |-> 60,
     shape_type |-> "rectangle", style |-> <<"fillColor=", "\"", "red">>] }

\* The keyword arguments of add_connection other than the endpoints.
PlainKeywords ==
  [label |-> <<"Next">>, arrow_type |-> "classic", style |-> <<>>, extra |-> {}]

\* Plain, a label with an ampersand, a style override, and the label
\* placement keywords test_label_positioning.py passes.
ConnectionKeywords ==
  { PlainKeywords,
    [label |-> <<"x", "&", "y">>, arrow_type |-> "block", style |-> <<>>, extra |-> {}],
    [label |-> <<>>, arrow_type |-> "classic", style |-> <<"dashed=1;">>, extra |-> {}],
    [label |-> <<"Left Label">>, arrow_type |-> "classic", style |-> <<>>,
     extra |-> {"label_position"}],
    [label |-> <<"Combined">>, arrow_type |-> "classic", style |-> <<>>,
     extra |-> {"label_position", "label_offset_x", "label_offset_y",
                "label_background_color"}] }

\* The ids passed as endpoints that are not shapes: every connection id of
\* the diagram and an id of no cell.
NotShapes(d) == KeySet(d.connections) \cup {"shape_0"}

\* The shapes passed as endpoints: the first and the last one.
EndShapes(d) ==
  IF d.shapes = <<>> THEN {} ELSE {d.shapes[1].id, d.shapes[Len(d.shapes)].id}

ConnectionArg(s, t, k) ==
  [source_id |-> s, target_id |-> t, label |-> k.label, arrow_type |-> k.arrow_type,
   style |-> k.style, extra |-> k.extra]

\* The arguments of add_connection: every keyword set between shapes, and
\* the plain one with an endpoint that is not a shape.
ConnectionArgs(d) ==
  { ConnectionArg(s, t, k) : s \in EndShapes(d), t \in EndShapes(d), k \in ConnectionKeywords }
    \cup { ConnectionArg(s, t, PlainKeywords) : s \in EndShapes(d), t \in NotShapes(d) }
    \cup { ConnectionArg(s, t, PlainKeywords) : s \in NotShapes(d), t \in EndShapes(d) \cup {"shape_0"} }

\* The operation of the last call.
CallOp == IF call = None THEN "" ELSE call.op

\* diagram.add_shape(...)
add_shape ==
  /\ current_diagram # None
  /\ current_diagram.next_id <= MaxCells
  /\ \E a \in ShapeArgs :
       /\ current_diagram' = AddShape(current_diagram, a)
       /\ call' = Outcome("add_shape", a, ShapeId(current_diagram.next_id), None)
  /\ UNCHANGED <<current_xml, histVars, patchVars>>

\* diagram.add_connection(...), which returns the new id or raises.
add_connection ==
  /\ current_diagram # None
  /\ \E a \in ConnectionArgs(current_diagram) :
       LET raised == AddConnectionRaises(current_diagram, a)
       IN  /\ raised = None => current_diagram.next_id <= MaxCells
           /\ current_diagram' = AddConnection(current_diagram, a)
           /\ call' = Outcome("add_connection", a,
                              IF raised = None THEN ConnId(current_diagram.next_id)
                              ELSE None,
                              raised)
  /\ UNCHANGED <<current_xml, histVars, patchVars>>

\* diagram.to_drawio_xml()
serialize ==
  /\ current_diagram # None
  /\ call' = Outcome("to_drawio_xml", None, to_drawio_xml(current_diagram, now), None)
  /\ UNCHANGED <<current_diagram, current_xml, histVars, patchVars>>

\* The texts at hand: the current text and the one just serialized.
TextsAtHand ==
  (IF current_xml = None THEN {} ELSE {current_xml})
    \cup (IF CallOp = "to_drawio_xml" THEN {call.result} ELSE {})

\* get_cells_from_xml(text)
list_cells ==
  /\ \E text \in TextsAtHand :
       call' = Outcome("get_cells_from_xml", text, get_cells_from_xml(text), None)
  /\ UNCHANGED <<current_diagram, current_xml, histVars, patchVars>>

DiagramInit ==
  /\ _history = <<>> /\ now = 0
  /\ PatchIdle
  /\ current_diagram \in {Diagram(name) : name \in Names}
  /\ current_xml = None
  /\ call = None

DiagramNext ==
  \/ add_shape
  \/ add_connection
  \/ serialize
  \/ list_cells
  \/ Tick

SpecDiagram == DiagramInit /\ [][DiagramNext]_vars

(* Editing a document text *)

RECURSIVE Encode(_)
\* The cells as toxml writes them: no element identities, attribute values
\* through _write_data.
Encode(cells) ==
  IF cells = <<>> THEN <<>>
  ELSE LET h == Head(cells)
       IN  <<[h EXCEPT !.nid = 0, !.value = _write_data(h.value),
                       !.style = _write_data(h.style), !.kids = Encode(h.kids)]>>
             \o Encode(Tail(cells))

\* doc.toxml(): the declaration first, then the tree.
writexml(dom) ==
  DrawioText(TRUE, TRUE, _write_data(dom.name), dom.modified, Encode(dom.cells))

\* Lines 239-240 and 273-274: the cells of the document whose id attribute
\* equals cell_id, in document order (a cell without id has the id "").
FindCell(dom, cell_id) ==
  SelectSeq(getElementsByTagName(dom.cells), LAMBDA c : c.id = cell_id)

\* The keyword arguments of update_cell_in_xml: set holds the keys passed
\* with a value other than None.
GeometryKeys == {"x", "y", "width", "height"}

\* Lines 251-258: the geometry attributes set from the updates, through str().
SetGeometry(g, updates) ==
  [g EXCEPT !.x = IF "x" \in updates.set THEN IntStr(updates.x) ELSE @,
            !.y = IF "y" \in updates.set THEN IntStr(updates.y) ELSE @,
            !.width = IF "width" \in updates.set THEN IntStr(updates.width) ELSE @,
            !.height = IF "height" \in updates.set THEN IntStr(updates.height) ELSE @]

RECURSIVE SetFirstGeometry(_, _)
\* Line 250: geom_elements[0], the first mxGeometry under these cells in
\* document order, gets the attributes.
SetFirstGeometry(cells, updates) ==
  IF cells = <<>> THEN <<>>
  ELSE LET h == Head(cells)
       IN  IF h.geoms # <<>>
           THEN <<[h EXCEPT !.geoms[1] = SetGeometry(@, updates)]>> \o Tail(cells)
           ELSE IF Geometries(h.kids) # <<>>
           THEN <<[h EXCEPT !.kids = SetFirstGeometry(@, updates)]>> \o Tail(cells)
           ELSE <<h>> \o SetFirstGeometry(Tail(cells), updates)

\* Lines 241-258: the cell after the update.  The geometry is touched only
\* when the cell has an mxGeometry descendant.
UpdatedCell(cell, updates) ==
  LET c == [cell EXCEPT
              !.value = IF "value" \in updates.set THEN updates.value ELSE @,
              !.style = IF "style" \in updates.set THEN updates.style ELSE @]
  IN  IF GeometriesOf(c) # <<>> /\ updates.set \cap GeometryKeys # {}
      THEN SetFirstGeometry(<<c>>, updates)[1]
      ELSE c

\* Lines 263-264 and 279-280: a text that does not parse gives ValueError.
XmlEditRaises(text) == IF WellFormed(text) THEN None ELSE ValueError

\* update_cell_in_xml for a text that parses: the first cell of that id is
\* updated, and the document is written anew whether a cell was found or not.
update_cell_in_xml(text, cell_id, updates) ==
  LET dom == parse_drawio_xml(text)
      found == FindCell(dom, cell_id)
  IN  IF found = <<>> THEN writexml(dom)
      ELSE writexml([dom EXCEPT
                       !.cells = replaceChild(@, UpdatedCell(found[1], updates),
                                              found[1].nid)])

\* delete_cell_in_xml for a text that parses: the first cell of that id
\* leaves its parent, with all it holds.
delete_cell_in_xml(text, cell_id) ==
  LET dom == parse_drawio_xml(text)
      found == FindCell(dom, cell_id)
  IN  IF found = <<>> THEN writexml(dom)
      ELSE writexml([dom EXCEPT !.cells = removeChild(@, found[1].nid)])

(* The calls made on a loaded text *)

\* The texts loaded: the serialization of two shapes and a connection
\* (test_file_operations.py); a text that does not parse; cells written by
\* hand, flat, one of them without geometry; a label of two lines next to a
\* cell without id; a cell nested in a cell that has no geometry of its own.
LoadedTexts ==
  LET shapes == AddShape(AddShape(Diagram(<<"Test Diagram">>),
                    [label |-> <<"Shape 1">>, x |-> 100, y |-> 100, width |-> 120,
                     height |-> 60, shape_type |-> "rectangle", style |-> <<>>]),
                    [label |-> <<"Shape 2">>, x |-> 250, y |-> 100, width |-> 120,
                     height |-> 60, shape_type |-> "rectangle", style |-> <<>>])
      diagram == AddConnection(shapes,
                    [source_id |-> "shape_1", target_id |-> "shape_2",
                     label |-> <<"Connection">>, arrow_type |-> "classic",
                     style |-> <<>>, extra |-> {}])
      Doc(cells) == DrawioText(TRUE, FALSE, <<"Page-1">>, 0, BackgroundCells \o cells)
      VertexCell(id, value, geoms, kids) ==
        MxCell(id, value, <<"rounded=0;">>, "1", "", "1", "", "", geoms, kids)
      Box(x, y) == <<MxGeometry(x, y, "120", "60", "", "geometry")>>
  IN  { to_drawio_xml(diagram, 0),
        DrawioText(FALSE, FALSE, <<>>, 0, <<>>),
        Doc(<< VertexCell("A", <<"a ", "&", "amp;", " b">>, Box("10", "20"), <<>>),
               VertexCell("B", <<"b">>, <<>>, <<>>),
               MxCell("C", <<>>, <<>>, "", "1", "1", "A", "B",
                      <<MxGeometry("", "", "", "", "1", "geometry")>>, <<>>) >>),
        Doc(<< VertexCell("A", <<"line 1", "&", "#10;", "line 2">>, Box("10", "20"), <<>>),
               MxCell("", <<"e">>, <<>>, "", "", "1", "", "", <<>>, <<>>) >>),
        Doc(<< VertexCell("A", <<"a">>, <<>>,
                 <<VertexCell("B", <<"b">>, Box("5", "5"), <<>>)>>),
               VertexCell("C", <<"c">>, Box("200", "20"), <<>>) >>) }

\* The keyword arguments passed to update_cell_in_xml: those of
\* test_file_operations.py; a style with a metacharacter and a size; none.
Updates ==
  LET U(set, value, style) ==
        [set |-> set, value |-> value, style |-> style, x |-> 150, y |-> 40,
         width |-> 80, height |-> 30]
  IN  { U({"value", "x"}, <<"Updated Label">>, <<>>),
        U({"style", "y", "width", "height"}, <<>>, <<"dashed=1;a=", "&", ";">>),
        U({}, <<>>, <<>>) }

\* The ids passed: those of the cells of the text other than the two
\* background cells, and an id of no cell.
CellIds(text) ==
  IF ~WellFormed(text) THEN {"A"}
  ELSE (Ids(text.cells) \ {"0", "1"}) \cup {"Z"}

\* current_xml = update_cell_in_xml(current_xml, cell_id, **updates)
XmlUpdate ==
  /\ current_xml # None
  /\ \E cell_id \in CellIds(current_xml), updates \in Updates :
       LET raised == XmlEditRaises(current_xml)
           result == IF raised = None
                     THEN update_cell_in_xml(current_xml, cell_id, updates)
                     ELSE None
       IN  /\ current_xml' = IF raised = None THEN result ELSE current_xml
           /\ call' = Outcome("update_cell_in_xml",
                              [cell_id |-> cell_id, updates |-> updates], result, raised)
  /\ UNCHANGED <<current_diagram, histVars, patchVars>>

\* current_xml = delete_cell_in_xml(current_xml, cell_id)
XmlDelete ==
  /\ current_xml # None
  /\ \E cell_id \in CellIds(current_xml) :
       LET raised == XmlEditRaises(current_xml)
           result == IF raised = None THEN delete_cell_in_xml(current_xml, cell_id)
                     ELSE None
       IN  /\ current_xml' = IF raised = None THEN result ELSE current_xml
           /\ call' = Outcome("delete_cell_in_xml", [cell_id |-> cell_id], result, raised)
  /\ UNCHANGED <<current_diagram, histVars, patchVars>>

\* extract_cells_info(current_xml)
XmlExtract ==
  /\ current_xml # None
  /\ call' = Outcome("extract_cells_info", current_xml,
                     extract_cells_info(current_xml), None)
  /\ UNCHANGED <<current_diagram, current_xml, histVars, patchVars>>

XmlInit ==
  /\ _history = <<>> /\ now = 0
  /\ PatchIdle
  /\ current_diagram = None
  /\ current_xml \in LoadedTexts
  /\ call = None

XmlNext ==
  \/ XmlUpdate
  \/ XmlDelete
  \/ list_cells
  \/ XmlExtract

SpecXml == XmlInit /\ [][XmlNext]_vars

(* call_tool *)

\* The most cells the add_shape and add_connection tools are made to mint.
MaxToolCells == 2

\* A well-formed text that holds neither mxGraphModel nor mxfile.
PlainXml ==
  [wf |-> TRUE, decl |-> FALSE, name |-> <<>>, modified |-> 0, cells |-> <<>>,
   drawio |-> FALSE]

\* Line 612: the document holds an mxGraphModel or an mxfile element.
HasDrawioElement(text) == "drawio" \notin DOMAIN text

\* get_or_create_diagram: the diagram the add tools work on.
get_or_create_diagram(diagram) ==
  IF diagram = None THEN Diagram(<<"Untitled">>) ELSE diagram

\* The text an edit tool works on, were it to fall back on the serialized
\* diagram as list_cells does (lines 633-637).
EditableText_OrDiagram(xml, diagram) ==
  IF xml # None THEN xml
  ELSE IF diagram # None THEN to_drawio_xml(diagram, now)
  ELSE None

\* Lines 708 and 736: update_cell and delete_cell work on current_xml only.
EditableText(xml, diagram) == xml

\* Lines 524-531
create_diagram ==
  /\ \E name \in {<<"Untitled">>} :
       /\ current_diagram' = Diagram(name)
       /\ call' = Outcome("create_diagram", name, "Created new diagram", None)
  /\ current_xml' = None
  /\ UNCHANGED <<histVars, patchVars>>

\* Lines 533-558: the file holds a text (any text, parsed or not), or there
\* is no file at that path.
load_diagram ==
  /\ \E text \in LoadedTexts \cup {None} :
       IF text = None
       THEN /\ call' = Outcome("load_diagram", text, "Error: File not found", None)
            /\ UNCHANGED <<current_diagram, current_xml>>
       ELSE /\ current_xml' = text
            /\ current_diagram' = None
            /\ call' = Outcome("load_diagram", text, "Loaded diagram", None)
  /\ UNCHANGED <<histVars, patchVars>>

\* Lines 605-630
set_diagram_xml ==
  /\ \E xml \in LoadedTexts \cup {PlainXml} :
       IF ~WellFormed(xml)
       THEN /\ call' = Outcome("set_diagram_xml", xml, "Error: Invalid XML", None)
            /\ UNCHANGED <<current_diagram, current_xml>>
       ELSE IF ~HasDrawioElement(xml)
       THEN /\ call' = Outcome("set_diagram_xml", xml, "Error: Invalid Draw.io XML", None)
            /\ UNCHANGED <<current_diagram, current_xml>>
       ELSE /\ current_xml' = xml
            /\ current_diagram' = None
            /\ call' = Outcome("set_diagram_xml", xml, "Diagram XML updated successfully.", None)
  /\ UNCHANGED <<histVars, patchVars>>

\* Lines 705-731.  The ids passed are those of the cells at hand and an id
\* of no cell.
update_cell ==
  /\ \E cell_id \in IF current_xml = None THEN {"shape_1", "Z"} ELSE CellIds(current_xml),
        updates \in Updates :
       LET text == EditableText(current_xml, current_diagram)
           args == [cell_id |-> cell_id, updates |-> updates]
       IN  IF text = None
           THEN /\ call' = Outcome("update_cell", args,
                              "Error: Can only update cells in loaded diagrams.", None)
                /\ UNCHANGED current_xml
           ELSE IF XmlEditRaises(text) # None
           THEN /\ call' = Outcome("update_cell", args, "Error updating cell", None)
                /\ UNCHANGED current_xml
           ELSE /\ current_xml' = update_cell_in_xml(text, cell_id, updates)
                /\ call' = Outcome("update_cell", args, "Cell updated successfully.", None)
  /\ UNCHANGED <<current_diagram, histVars, patchVars>>

\* Lines 733-752
delete_cell ==
  /\ \E cell_id \in IF current_xml = None THEN {"shape_1", "Z"} ELSE CellIds(current_xml) :
       LET text == EditableText(current_xml, current_diagram)
           args == [cell_id |-> cell_id]
       IN  IF text = None
           THEN /\ call' = Outcome("delete_cell", args,
                              "Error: Can only delete cells in loaded diagrams.", None)
                /\ UNCHANGED current_xml
           ELSE IF XmlEditRaises(text) # None
           THEN /\ call' = Outcome("delete_cell", args, "Error deleting cell", None)
                /\ UNCHANGED current_xml
           ELSE /\ current_xml' = delete_cell_in_xml(text, cell_id)
                /\ call' = Outcome("delete_cell", args, "Cell deleted successfully.", None)
  /\ UNCHANGED <<current_diagram, histVars, patchVars>>

\* Lines 754-772: the shape goes into the in-memory diagram, made on the
\* spot when there is none, and with a text current the text becomes the
\* serialization of that diagram.
tool_add_shape ==
  /\ get_or_create_diagram(current_diagram).next_id <= MaxToolCells
  /\ \E a \in {b \in ShapeArgs : b.label = <<"s1">>} :
       LET diagram == AddShape(get_or_create_diagram(current_diagram), a)
       IN  /\ current_diagram' = diagram
           /\ current_xml' = IF current_xml # None THEN to_drawio_xml(diagram, now)
                             ELSE current_xml
           /\ call' = Outcome("add_shape", a, "Added shape", None)
  /\ UNCHANGED <<histVars, patchVars>>

\* Lines 774-796
tool_add_connection ==
  /\ LET before == get_or_create_diagram(current_diagram)
     IN  \E s \in EndShapes(before) \cup {"shape_0"}, t \in EndShapes(before) \cup {"A"} :
           LET a == ConnectionArg(s, t, PlainKeywords)
               diagram == AddConnection(before, a)
           IN  /\ current_diagram' = diagram
               /\ IF AddConnectionRaises(before, a) = ValueError
                  THEN /\ call' = Outcome("add_connection", a,
                                     "Error: Source or target shape not found", None)
                       /\ UNCHANGED current_xml
                  ELSE /\ before.next_id <= MaxToolCells
                       /\ current_xml' = IF current_xml # None
                                         THEN to_drawio_xml(diagram, now)
                                         ELSE current_xml
                       /\ call' = Outcome("add_connection", a, "Added connection", None)
  /\ UNCHANGED <<histVars, patchVars>>

\* Lines 632-648: the cells the list_cells tool lists; None when there is
\* no diagram of either kind.
ListedCells(xml, diagram) ==
  IF xml # None THEN get_cells_from_xml(xml)
  ELSE IF diagram # None THEN get_cells_from_xml(to_drawio_xml(diagram, now))
  ELSE None

\* Lines 632-664
tool_list_cells ==
  /\ call' = Outcome("list_cells", None,
                     [cells |-> ListedCells(current_xml, current_diagram)], None)
  /\ UNCHANGED <<current_diagram, current_xml, histVars, patchVars>>

\* Lines 177-180: the server starts without diagram and without text.
ServerInit ==
  /\ _history = <<>> /\ now = 0
  /\ PatchIdle
  /\ ServerIdle

ServerNext ==
  \/ create_diagram
  \/ load_diagram
  \/ set_diagram_xml
  \/ update_cell
  \/ delete_cell
  \/ tool_add_shape
  \/ tool_add_connection
  \/ tool_list_cells

SpecServer == ServerInit /\ [][ServerNext]_vars

(***************************************************************************)
(* Properties of the Diagram class.                                        *)
(***************************************************************************)
\* The ids of a diagram: those of its shapes, then those of its connections.
AllIds(d) == Keys(d.shapes) \o Keys(d.connections)

\* The ids of the diagram are pairwise distinct, each was minted from a
\* counter value below the present one, and no counter value was used twice.
IdsWellMinted(d) ==
  /\ \A i, j \in 1 .. Len(AllIds(d)) : AllIds(d)[i] = AllIds(d)[j] => i = j
  /\ \A id \in KeySet(d.shapes) : \E n \in 1 .. d.next_id - 1 : id = ShapeId(n)
  /\ \A id \in KeySet(d.connections) : \E n \in 1 .. d.next_id - 1 : id = ConnId(n)
  /\ \A n \in 1 .. d.next_id - 1 :
       ~(ShapeId(n) \in KeySet(d.shapes) /\ ConnId(n) \in KeySet(d.connections))

\* In a diagram made of two shapes and then a connection the shapes are
\* shape_1 and shape_2 and the connection has the counter value 3.
FirstIds(d) ==
  /\ (Len(d.shapes) = 2 /\ d.connections = <<>>)
       => (Keys(d.shapes) = <<"shape_1", "shape_2">> /\ d.next_id = 3)
  /\ (Keys(d.shapes) = <<"shape_1", "shape_2">> /\ Len(d.connections) = 1)
       => Keys(d.connections) = <<"conn_3">>

\* C22: after any add_shape and add_connection calls, failing ones
\* included, the ids of shapes and connections are pairwise distinct, each
\* carries a number below the counter, the counter never decreases, and a
\* fresh diagram gives shape_1, shape_2 and then the connection number 3.
C22_IdentifiersUnique ==
  /\ [](current_diagram # None
          => (IdsWellMinted(current_diagram) /\ FirstIds(current_diagram)))
  /\ [][(current_diagram # None /\ current_diagram' # None)
          => current_diagram'.next_id >= current_diagram.next_id]_vars

\* Two shapes and the connection "Next" between them, made after a call
\* that failed.
C22_Witness ==
  /\ current_diagram # None
  /\ Keys(current_diagram.shapes) = <<"shape_1", "shape_2">>
  /\ Keys(current_diagram.connections) = <<"conn_3">>
  /\ current_diagram.connections[1].source_id = "shape_1"
  /\ current_diagram.connections[1].target_id = "shape_2"
  /\ current_diagram.connections[1].label = <<"Next">>
  /\ CallOp = "add_connection"
  /\ call.raised = ValueError

\* This step is a call of add_connection with the keywords of its signature
\* (every call records its outcome in call and leaves the clock alone).
IsAddConnection ==
  /\ current_diagram # None
  /\ now' = now
  /\ CallOp' = "add_connection"
  /\ call'.args.extra = {}

\* C23: add_connection with a source or target that is not the id of a
\* shape of the diagram raises the missing-endpoint error and leaves shapes,
\* connections and counter as they were.
C23_MissingEndpointMutatesNothing ==
  [][(/\ IsAddConnection
      /\ \/ call'.args.source_id \notin KeySet(current_diagram.shapes)
         \/ call'.args.target_id \notin KeySet(current_diagram.shapes))
        => (call'.raised = ValueError /\ current_diagram' = current_diagram)]_vars

\* A connection from a shape to a connection was refused.
C23_Witness ==
  /\ CallOp = "add_connection"
  /\ call.raised = ValueError
  /\ call.args.source_id \in KeySet(current_diagram.shapes)
  /\ call.args.target_id \in KeySet(current_diagram.connections)
  /\ current_diagram.next_id = MaxCells

\* C33: in every state reached through add_shape and add_connection the
\* source and the target of each stored connection are ids of stored shapes.
C33_NoDanglingConnection ==
  current_diagram # None =>
    \A k \in 1 .. Len(current_diagram.connections) :
      /\ current_diagram.connections[k].source_id \in KeySet(current_diagram.shapes)
      /\ current_diagram.connections[k].target_id \in KeySet(current_diagram.shapes)

\* A connection is stored, and the last call, with an endpoint that is no
\* shape, was refused.
C33_Witness ==
  /\ current_diagram # None
  /\ Len(current_diagram.connections) >= 1
  /\ CallOp = "add_connection"
  /\ call.raised = ValueError
  /\ call.args.target_id \notin KeySet(current_diagram.shapes)

\* The last call serialized the diagram as it is now.
Serialized == CallOp = "to_drawio_xml"

C34_SerializeDeterministic ==
  [][(CallOp' = "to_drawio_xml" /\ now' = now)
       => /\ current_diagram' = current_diagram
          /\ CallOp = "to_drawio_xml" => call'.result = call.result]_vars

\* C25: whatever the name, labels and style overrides, the serialization
\* parses, and the value of each cell reads back as the label: each
\* metacharacter of a label was escaped exactly once.
C25_SerializationWellFormed ==
  Serialized =>
    LET d == current_diagram
        cells == call.result.cells
        ns == Len(d.shapes)
    IN  /\ WellFormed(call.result)
        /\ \A k \in 1 .. ns : Unescape(cells[2 + k].value) = d.shapes[k].label
        /\ \A k \in 1 .. Len(d.connections) :
             Unescape(cells[2 + ns + k].value) = d.connections[k].label

\* The last call listed the cells of the serialization of the diagram as
\* it is now.
ListedSerialization ==
  /\ CallOp = "get_cells_from_xml"
  /\ current_diagram # None
  /\ call.args = to_drawio_xml(current_diagram, now)

\* C26: the listing of a serialized diagram reports exactly the ids of its
\* shapes and connections, each shape as a vertex and each connection as an
\* edge with its source and target.
C26_ListingMatchesModel ==
  ListedSerialization =>
    LET d == current_diagram
        ns == Len(d.shapes)
        nc == Len(d.connections)
    IN  /\ Len(call.result) = ns + nc
        /\ [k \in 1 .. Len(call.result) |-> call.result[k].id] = AllIds(d)
        /\ \A k \in 1 .. ns : call.result[k].vertex /\ ~call.result[k].edge
        /\ \A k \in 1 .. nc :
             /\ call.result[ns + k].edge /\ ~call.result[ns + k].vertex
             /\ call.result[ns + k].source = d.connections[k].source_id
             /\ call.result[ns + k].target = d.connections[k].target_id

\* The cell carries label placement: a placement or background token in its
\* style, or a geometry element marked offset.
HasPlacement(cell) ==
  \/ \E k \in 1 .. Len(cell.style) :
       cell.style[k] \in {"labelPosition=", "labelBackgroundColor="}
  \/ \E k \in 1 .. Len(cell.geoms) : cell.geoms[k].as = "offset"

\* C27: a connection made with label placement keywords is stored and
\* serializes with the placement tokens and a second geometry element marked
\* offset; one made without serializes with no placement token and the
\* single relative geometry element.
C27_PlacementEmittedIffSupplied ==
  [][(/\ current_diagram # None
      /\ now' = now
      /\ CallOp' = "add_connection"
      /\ EndpointsKnown(current_diagram, call'.args))
        => LET conns == current_diagram'.connections
           IN  /\ call'.raised = None
               /\ Len(conns) = Len(current_diagram.connections) + 1
               /\ LET cell == ConnectionCell(conns[Len(conns)])
                  IN  IF call'.args.extra # {}
                      THEN /\ HasPlacement(cell)
                           /\ Len(cell.geoms) = 2
                           /\ cell.geoms[2].as = "offset"
                      ELSE /\ ~HasPlacement(cell)
                           /\ cell.geoms = <<MxGeometry("", "", "", "", "1", "geometry")>>]_vars

(***************************************************************************)
(* Properties of the functions that read and edit a loaded text.           *)
(***************************************************************************)
\* The ids of the entries of a listing, in order.
ListedIds(listing) == [k \in 1 .. Len(listing) |-> listing[k].id]

\* C28: listing the cells never fails; a text that does not parse gives
\* the empty list; for a text that parses no entry has the id "0" or "1",
\* and every other cell that has an id has its entry, in document order.
C28_ListingIsBestEffort ==
  CallOp \in {"get_cells_from_xml", "extract_cells_info"} =>
    /\ call.raised = None
    /\ ~WellFormed(call.args) => call.result = <<>>
    /\ WellFormed(call.args) =>
         LET cells == getElementsByTagName(call.args.cells)
             others == SelectSeq(cells, LAMBDA c : c.id \notin {"", "0", "1"})
         IN  /\ \A k \in 1 .. Len(call.result) : call.result[k].id \notin {"0", "1"}
             /\ ListedIds(call.result) = [k \in 1 .. Len(others) |-> others[k].id]

\* The cells of a text that holds both background cells and a cell without
\* id were listed after an edit.
C28_Witness ==
  /\ CallOp = "get_cells_from_xml"
  /\ WellFormed(call.args)
  /\ call.args.decl
  /\ Ids(call.args.cells) = {"0", "1", "A", ""}
  /\ ListedIds(call.result) = <<"A">>

\* C29: delete_cell_in_xml removes exactly the cell of that id: the listing
\* of the result is the listing of the input without the entry of that id,
\* every other entry as it was, so one entry less when the id was listed and
\* as many when it was not.
C29_DeleteRemovesExactlyOne ==
  [][(call'.op = "delete_cell_in_xml" /\ call'.raised = None)
       => LET before == get_cells_from_xml(current_xml)
              after == get_cells_from_xml(current_xml')
              cell_id == call'.args.cell_id
              others == SelectSeq(before, LAMBDA c : c.id # cell_id)
          IN  /\ after = others
              /\ Len(after) = IF \E k \in 1 .. Len(before) : before[k].id = cell_id
                              THEN Len(before) - 1
                              ELSE Len(before)]_vars

\* The entry of a listing as the update is to leave it: the supplied fields
\* set (the numbers through str()), the others as they were.
UpdatedInfo(info, updates) ==
  LET Old(key) == IF info.geometry = None THEN "" ELSE info.geometry[key]
      New(key) == IF key \in updates.set THEN IntStr(updates[key]) ELSE Old(key)
  IN  [info EXCEPT
         !.value = IF "value" \in updates.set THEN updates.value ELSE @,
         !.style = IF "style" \in updates.set THEN updates.style ELSE @,
         !.geometry = IF updates.set \cap GeometryKeys = {} THEN @
                      ELSE [x |-> New("x"), y |-> New("y"), width |-> New("width"),
                            height |-> New("height")]]

\* C30: update_cell_in_xml sets exactly the supplied fields on the cell of
\* that id and leaves its other fields, every other cell and the number of
\* cells as they were.
C30_UpdateSetsExactlySupplied ==
  [][(call'.op = "update_cell_in_xml" /\ call'.raised = None)
       => LET before == get_cells_from_xml(current_xml)
              after == get_cells_from_xml(current_xml')
              cell_id == call'.args.cell_id
              updates == call'.args.updates
          IN  /\ Len(after) = Len(before)
              /\ \A k \in 1 .. Len(before) :
                   after[k] = IF before[k].id = cell_id
                              THEN UpdatedInfo(before[k], updates)
                              ELSE before[k]]_vars

(***************************************************************************)
(* Properties of the tools of call_tool.                                   *)
(***************************************************************************)
\* The serialized document the server holds: the current text, else the
\* serialization of the in-memory diagram, else None.
ServedText ==
  IF current_xml # None THEN current_xml
  ELSE IF current_diagram # None THEN to_drawio_xml(current_diagram, now)
  ELSE None

\* C32: before a tool overwrites the current document, the serialized text
\* it had is appended to the version history, so that it is the newest entry
\* of a session right after the step.
C32_OverwrittenIsRecorded ==
  [][(ServedText # None /\ ServedText' # ServedText)
       => \E s \in DOMAIN _history' :
            /\ _history'[s] # <<>>
            /\ _history'[s][Len(_history'[s])].xml = ServedText]_vars

\* C35: with a text current, an add_shape or add_connection tool call that
\* succeeds keeps every cell listed before it, with the same attributes, and
\* lists one cell more.
C35_AddToolsKeepCells ==
  [][(/\ CallOp' \in {"add_shape", "add_connection"}
      /\ call'.result \in {"Added shape", "Added connection"}
      /\ current_xml # None)
       => LET before == get_cells_from_xml(current_xml)
              after == get_cells_from_xml(current_xml')
          IN  /\ Len(after) = Len(before) + 1
              /\ \A k \in 1 .. Len(before) :
                   \E j \in 1 .. Len(after) : after[j] = before[k]]_vars

\* C36: update_cell and delete_cell answer with success only when a cell of
\* that id was in the current text; when there is none they answer with an
\* error and the ids listed stay the same.
C36_EditToolsReportNotFound ==
  [][(CallOp' \in {"update_cell", "delete_cell"})
       => LET existed == /\ current_xml # None
                         /\ WellFormed(current_xml)
                         /\ call'.args.cell_id \in Ids(current_xml.cells)
              success == call'.result \in {"Cell updated successfully.",
                                           "Cell deleted successfully."}
          IN  /\ success => existed
              /\ ~existed =>
                   /\ ~success
                   /\ ListedIds(get_cells_from_xml(current_xml'))
                        = ListedIds(get_cells_from_xml(current_xml))]_vars

\* C37: with no text current, update_cell and delete_cell answer with their
\* error and leave the in-memory diagram and the absence of a text as they
\* were.
C37_EditToolsNeedText ==
  [][(CallOp' \in {"update_cell", "delete_cell"} /\ current_xml = None)
       => /\ call'.result \in {"Error: Can only update cells in loaded diagrams.",
                               "Error: Can only delete cells in loaded diagrams."}
          /\ current_diagram' = current_diagram
          /\ current_xml' = None]_vars

\* delete_cell was refused on a created diagram that holds a shape and a
\* connection.
C37_Witness ==
  /\ CallOp = "delete_cell"
  /\ call.args.cell_id = "shape_1"
  /\ call.result = "Error: Can only delete cells in loaded diagrams."
  /\ current_xml = None
  /\ current_diagram # None
  /\ Keys(current_diagram.shapes) = <<"shape_1">>
  /\ Keys(current_diagram.connections) = <<"conn_2">>
  /\ current_diagram.next_id = 3
====
